---- MODULE Spec2Model ----
(***************************************************************************)
(* Model of mlflow_efficiency_audit.py: the module-level configuration     *)
(* check, fetch_full_metric_history, the sweep of                          *)
(* fetch_all_experiment_metrics, fetch_registered_models, generate_excel   *)
(* and the __main__ block.                                                 *)
(*                                                                         *)
(* Python values are represented as follows.                               *)
(*   - an optional value (None or x) is <<>> or <<x>>;                     *)
(*   - a str that the program builds is the sequence of its characters;    *)
(*     a str that the program only copies is a TLA+ string;                *)
(*   - a float is an integer number of tenths when it is a metric value,   *)
(*     and the pair <<numerator, denominator>> when it is a quotient;      *)
(*   - a dict is a function; the keys of run_data are tuples, <<name>>     *)
(*     for a fixed column and <<"GPU_", i, "_History">> for f-string keys. *)
(***************************************************************************)
EXTENDS Integers, Sequences, FiniteSets, TLC

\* ---------------------------------------------------------------- bounds
\* The tracking server lists at most MaxExperiments experiments.
MaxExperiments == 2
\* The tracking server holds at most MaxRuns runs in total.
MaxRuns == 2
\* The tracking server holds at most MaxSeries non-empty GPU metric series.
MaxSeries == 1
\* A metric series has at most MaxLen samples.
MaxLen == 2

\* -------------------------------------------------- the program's constant
\* range(12): the slots probed for every run.
NumGpuSlots == 12
Slots == 0 .. (NumGpuSlots - 1)

\* Slots for which the modelled server may hold a series.  Every slot is
\* probed, and any probe may fail or come back empty.
DataSlots == {3}

\* ------------------------------------------------------- Python built-ins
None == <<>>
Some(x) == <<x>>

\* bool(x) for an optional integer: None and 0 are falsy.
Truthy(opt) == opt # None /\ opt[1] # 0

\* dict.get(key, default)
DictGet(d, key, default) == IF key \in DOMAIN d THEN d[key] ELSE default

\* dict.update(other): the keys of other win.
DictUpdate(d, other) ==
  [k \in (DOMAIN d) \cup (DOMAIN other) |-> IF k \in DOMAIN other THEN other[k] ELSE d[k]]

Digit(n) == CASE n = 0 -> "0" [] n = 1 -> "1" [] n = 2 -> "2" [] n = 3 -> "3"
              [] n = 4 -> "4" [] n = 5 -> "5" [] n = 6 -> "6" [] n = 7 -> "7"
              [] n = 8 -> "8" [] n = 9 -> "9"

RECURSIVE NatStr(_)
NatStr(n) == IF n < 10 THEN <<Digit(n)>> ELSE NatStr(n \div 10) \o <<Digit(n % 10)>>

\* format(ts) of an int inside an f-string
IntStr(n) == IF n < 0 THEN <<"-">> \o NatStr(-n) ELSE NatStr(n)

\* format(val) of a float inside an f-string: repr of a float that is a whole
\* number of tenths, e.g. 200 tenths -> "20.0", 55 tenths -> "5.5".
FloatStr(v) ==
  IF v < 0 THEN <<"-">> \o NatStr((-v) \div 10) \o <<".">> \o NatStr((-v) % 10)
  ELSE NatStr(v \div 10) \o <<".">> \o NatStr(v % 10)

\* sep.join(parts)
RECURSIVE Join(_, _)
Join(sep, parts) ==
  IF parts = <<>> THEN <<>>
  ELSE IF Len(parts) = 1 THEN parts[1]
  ELSE parts[1] \o sep \o Join(sep, Tail(parts))

\* ----------------------------------------------------------- the server
\* What the tracking server may hold.  A metric sample is an object with a
\* timestamp (ms) and a value (tenths).
Recording == << [timestamp |-> 0, value |-> 200],
               [timestamp |-> 1, value |-> 400],
               [timestamp |-> 12, value |-> 55],
               [timestamp |-> 1500, value |-> 1000] >>

\* The non-empty series the server may hold: the first n samples recorded.
SeriesChoices ==
  {SubSeq(Recording, 1, n) : n \in 1 .. (IF MaxLen < Len(Recording) THEN MaxLen ELSE Len(Recording))}

UserTag == "mlflow.user"
SourceTag == "mlflow.source.name"
ModelHistoryTag == "mlflow.log-model.history"
CondaTag == "mlflow.conda.env"
RequirementsTag == "mlflow.requirements.file"
DockerTag == "mlflow.docker.image.name"

EmptyTags == [k \in {} |-> ""]

\* The kinds of run the server may hold: tags, times (ms), status, artifacts.
RunChoices ==
  { [tags |-> EmptyTags, status |-> "RUNNING",
     start_time |-> Some(1000), end_time |-> None, artifacts |-> <<>>],
    [tags |-> (UserTag :> "alice") @@ (SourceTag :> "train.py") @@ (RequirementsTag :> "requirements.txt"),
     status |-> "FINISHED",
     start_time |-> Some(1000), end_time |-> Some(3500),
     artifacts |-> << <<"m", "o", "d", "e", "l">>, <<"l", "o", "g">> >>],
    [tags |-> (UserTag :> "bob") @@ (CondaTag :> "conda.yaml") @@ (DockerTag :> "img"),
     status |-> "FINISHED",
     start_time |-> Some(0), end_time |-> Some(0), artifacts |-> <<>>] }

\* ---------------------------------------------------------------- state
VARIABLES
  pc,                    \* position of the process
  exc,                   \* the uncaught exception that ended the process, or "none"
  experiments,           \* fetch_all_experiment_metrics: result of search_experiments
  e,                     \* index in experiments of the experiment being swept
  runs,                  \* result of search_runs for experiments[e]
  r,                     \* index in runs of the run being processed
  i,                     \* the slot the probe loop is at
  gpu_metric_histories,  \* dict built by the probe loop for the current run
  history,               \* what the last fetch_full_metric_history call returned
  resp,                  \* what the client answered to the last get_metric_history
  all_data,              \* the list of run_data dicts
  experiment_data,       \* __main__: the DataFrame returned by the sweep, if any
  registered_model_data, \* __main__: |rows| of the registered-models DataFrame, if any
  file,                  \* the output file on disk, if any
  saves,                 \* number of completed wb.save calls
  stdout,                \* the lines printed
  listing,               \* the runs the client has listed so far, with their experiment
  fetched,               \* per listed run already recorded: slot -> fetched series
  cur_fetched,           \* slot -> fetched series, for the run being processed
  nseries                \* number of non-empty series the client has served

vars == << pc, exc, experiments, e, runs, r, i, gpu_metric_histories, history, resp,
           all_data, experiment_data, registered_model_data, file, saves, stdout,
           listing, fetched, cur_fetched, nseries >>

EmptyDict == [k \in {} |-> <<>>]
NoFetch == [s \in Slots |-> <<>>]
NoResponse == [ok |-> TRUE, points |-> <<>>]

\* The values os.getenv("MLFLOW_TRACKING_URI") may have: unset, empty, set.
UriChoices == {None, Some(""), Some("http://tracking:5000")}

\* `not tracking_uri`
UriMissing(uri) == uri = None \/ uri[1] = ""

Init ==
  /\ pc = "config"
  /\ exc = "none"
  /\ experiments = <<>>
  /\ e = 0
  /\ runs = <<>>
  /\ r = 0
  /\ i = 0
  /\ gpu_metric_histories = EmptyDict
  /\ history = <<>>
  /\ resp = NoResponse
  /\ all_data = <<>>
  /\ experiment_data = None
  /\ registered_model_data = None
  /\ file = None
  /\ saves = 0
  /\ stdout = <<>>
  /\ listing = <<>>
  /\ fetched = <<>>
  /\ cur_fetched = NoFetch
  /\ nseries = 0

\* Lines 14-19: the tracking URI is read; a missing one raises ValueError.
CheckConfig ==
  /\ pc = "config"
  /\ \E uri \in UriChoices :
       IF UriMissing(uri)
       THEN pc' = "raised" /\ exc' = "ValueError: MLFLOW_TRACKING_URI is not set"
       ELSE pc' = "search_experiments" /\ exc' = exc
  /\ UNCHANGED << experiments, e, runs, r, i, gpu_metric_histories, history, resp,
                  all_data, experiment_data, registered_model_data, file, saves,
                  stdout, listing, fetched, cur_fetched, nseries >>

\* ------------------------------------------------ fetch_full_metric_history
\* The answers client.get_metric_history may give for a slot: an exception,
\* no samples, or one of the series the server may hold.
ClientResponses(slot) ==
  {[ok |-> FALSE, points |-> <<>>], [ok |-> TRUE, points |-> <<>>]}
  \cup (IF slot \in DataSlots /\ nseries < MaxSeries
        THEN {[ok |-> TRUE, points |-> s] : s \in SeriesChoices}
        ELSE {})

\* Variant of lines 26-27 with the pair built as (value, timestamp).
fetch_full_metric_history_swapped(rsp) ==
  IF rsp.ok
  THEN [k \in 1 .. Len(rsp.points) |-> <<rsp.points[k].value, rsp.points[k].timestamp>>]
  ELSE <<>>

\* Lines 21-29.  rsp is the outcome of client.get_metric_history.
fetch_full_metric_history(rsp) ==
  IF rsp.ok
  THEN [k \in 1 .. Len(rsp.points) |-> <<rsp.points[k].timestamp, rsp.points[k].value>>]
  ELSE <<>>

\* ---------------------------------------------- fetch_all_experiment_metrics
Experiment(n) == [experiment_id |-> n, name |-> <<"exp", n>>]

Run(n, k, choice) ==
  [run_id |-> <<"run", n, k>>, run_name |-> <<"name", n, k>>, status |-> choice.status,
   start_time |-> choice.start_time, end_time |-> choice.end_time,
   tags |-> choice.tags, artifacts |-> choice.artifacts]

\* Line 52: the key of slot s in gpu_metric_histories.
HistoryKey(s) == <<"GPU_", s, "_History">>

\* Variant of lines 49-51 that joins the entries newest first.
history_str_reversed(h) ==
  Join(<<";", " ">>,
       [k \in 1 .. Len(h) |->
          <<"T", "i", "m", "e", "s", "t", "a", "m", "p", ":", " ">> \o IntStr(h[Len(h) + 1 - k][1])
          \o <<",", " ", "V", "a", "l", "u", "e", ":", " ">> \o FloatStr(h[Len(h) + 1 - k][2])])

\* Lines 49-51.
history_str(h) ==
  Join(<<";", " ">>,
       [k \in 1 .. Len(h) |->
          <<"T", "i", "m", "e", "s", "t", "a", "m", "p", ":", " ">> \o IntStr(h[k][1])
          \o <<",", " ", "V", "a", "l", "u", "e", ":", " ">> \o FloatStr(h[k][2])])

\* Variant of lines 47-52 without the `if history` test.
StoreHistoryAlways(d, s, h) == DictUpdate(d, HistoryKey(s) :> history_str(h))

\* Lines 47-52: what the probe of slot s leaves in gpu_metric_histories.
StoreHistory(d, s, h) ==
  IF h # <<>> THEN DictUpdate(d, HistoryKey(s) :> history_str(h)) ELSE d

\* Lines 97-103.  strftime has a resolution of one second; the rendering of
\* the local date is kept as the format with the whole seconds it shows.
human_readable_date(timestamp) ==
  IF timestamp = None THEN None
  ELSE Some(<<"%d/%m/%Y %H:%M:%S", timestamp[1] \div 1000>>)

\* Line 63.
Duration(run) ==
  IF Truthy(run.end_time)
  THEN Some(<<run.end_time[1] - run.start_time[1], 1000>>)
  ELSE None

\* Lines 54-68.
run_data(experiment, run, histories) ==
  DictUpdate(
    (<<"Experiment Name">> :> experiment.name)
    @@ (<<"Run ID">> :> run.run_id)
    @@ (<<"Run Name">> :> run.run_name)
    @@ (<<"User">> :> DictGet(run.tags, UserTag, "Unknown"))
    @@ (<<"Source">> :> DictGet(run.tags, SourceTag, "Unknown"))
    @@ (<<"Status">> :> run.status)
    @@ (<<"Start Time">> :> human_readable_date(run.start_time))
    @@ (<<"End Time">> :> human_readable_date(run.end_time))
    @@ (<<"Duration (s)">> :> Duration(run))
    @@ (<<"Logged Models">> :> Join(<<",", " ">>, run.artifacts))
    @@ (<<"Registered Models">> :> DictGet(run.tags, ModelHistoryTag, "None")),
    histories)

\* Variant of line 69 that inserts the record at the front.
PrependRunData(data, row) == <<row>> \o data

\* Line 69.
AppendRunData(data, row) == Append(data, row)

\* Line 71: pd.DataFrame(list of dicts): the rows, and the union of their keys.
DataFrame(rows) ==
  [rows |-> rows, columns |-> UNION {DOMAIN rows[k] : k \in 1 .. Len(rows)}]

\* DataFrame.empty: some axis has length 0.
DataFrameEmpty(df) == Len(df.rows) = 0 \/ df.columns = {}

\* Line 35: search_experiments answers.
SearchExperiments ==
  /\ pc = "search_experiments"
  /\ \E n \in 0 .. MaxExperiments :
       /\ experiments' = [k \in 1 .. n |-> Experiment(k)]
       /\ e' = 1
       /\ pc' = IF n = 0 THEN "return" ELSE "search_runs"
  /\ UNCHANGED << exc, runs, r, i, gpu_metric_histories, history, resp, all_data,
                  experiment_data, registered_model_data, file, saves, stdout,
                  listing, fetched, cur_fetched, nseries >>

\* Line 35: search_experiments raises; nothing catches it.
SearchExperimentsFails ==
  /\ pc = "search_experiments"
  /\ pc' = "raised"
  /\ exc' = "search_experiments"
  /\ UNCHANGED << experiments, e, runs, r, i, gpu_metric_histories, history, resp,
                  all_data, experiment_data, registered_model_data, file, saves,
                  stdout, listing, fetched, cur_fetched, nseries >>

\* Lines 38-42: search_runs answers for experiments[e]; an experiment without
\* runs is passed over.
SearchRuns ==
  /\ pc = "search_runs"
  /\ \E m \in 0 .. (MaxRuns - Len(listing)) :
       \E choice \in [1 .. m -> RunChoices] :
         LET rs == [k \in 1 .. m |-> Run(e, k, choice[k])]
         IN  /\ runs' = rs
             /\ r' = 1
             /\ listing' = listing \o [k \in 1 .. m |-> [experiment |-> experiments[e], run |-> rs[k]]]
             /\ IF m > 0
                THEN pc' = "probe" /\ e' = e
                ELSE IF e < Len(experiments)
                     THEN pc' = "search_runs" /\ e' = e + 1
                     ELSE pc' = "return" /\ e' = e + 1
  /\ i' = 0
  /\ gpu_metric_histories' = EmptyDict
  /\ cur_fetched' = NoFetch
  /\ UNCHANGED << exc, experiments, history, resp, all_data, experiment_data,
                  registered_model_data, file, saves, stdout, fetched, nseries >>

\* Line 39: search_runs raises; nothing catches it.
SearchRunsFails ==
  /\ pc = "search_runs"
  /\ pc' = "raised"
  /\ exc' = "search_runs"
  /\ UNCHANGED << experiments, e, runs, r, i, gpu_metric_histories, history, resp,
                  all_data, experiment_data, registered_model_data, file, saves,
                  stdout, listing, fetched, cur_fetched, nseries >>

\* Lines 44-52: one iteration of the probe loop, with the call of
\* fetch_full_metric_history it makes.
FetchSlot ==
  /\ pc = "probe"
  /\ i < NumGpuSlots
  /\ \E rsp \in ClientResponses(i) :
       LET h == fetch_full_metric_history(rsp)
       IN  /\ resp' = rsp
           /\ history' = h
           /\ gpu_metric_histories' = StoreHistory(gpu_metric_histories, i, h)
           /\ cur_fetched' = [cur_fetched EXCEPT ![i] = h]
           /\ nseries' = IF rsp.ok /\ rsp.points # <<>> THEN nseries + 1 ELSE nseries
  /\ i' = i + 1
  /\ UNCHANGED << pc, exc, experiments, e, runs, r, all_data, experiment_data,
                  registered_model_data, file, saves, stdout, listing, fetched >>

\* Lines 54-69, and the step to the next run or experiment: list_artifacts
\* answers, the record is built and appended.  The locals of the finished
\* iteration (history, the client's answer) are dead and are cleared.
BuildRunData ==
  /\ pc = "probe"
  /\ i = NumGpuSlots
  /\ all_data' = AppendRunData(all_data, run_data(experiments[e], runs[r], gpu_metric_histories))
  /\ fetched' = Append(fetched, cur_fetched)
  /\ IF r < Len(runs)
     THEN /\ r' = r + 1
          /\ e' = e
          /\ pc' = "probe"
     ELSE /\ r' = r + 1
          /\ e' = e + 1
          /\ pc' = IF e < Len(experiments) THEN "search_runs" ELSE "return"
  /\ i' = 0
  /\ gpu_metric_histories' = EmptyDict
  /\ cur_fetched' = NoFetch
  /\ history' = <<>>
  /\ resp' = NoResponse
  /\ UNCHANGED << exc, experiments, runs, experiment_data, registered_model_data,
                  file, saves, stdout, listing, nseries >>

\* Variant of line 64 in which the exception ends the sweep but is swallowed,
\* so that the table built so far is returned.
ListArtifactsFailsSwallowed ==
  /\ pc = "probe"
  /\ i = NumGpuSlots
  /\ pc' = "return"
  /\ UNCHANGED << exc, experiments, e, runs, r, i, gpu_metric_histories, history, resp,
                  all_data, experiment_data, registered_model_data, file, saves,
                  stdout, listing, fetched, cur_fetched, nseries >>

\* Line 64: list_artifacts raises; nothing catches it.
ListArtifactsFails ==
  /\ pc = "probe"
  /\ i = NumGpuSlots
  /\ pc' = "raised"
  /\ exc' = "list_artifacts"
  /\ UNCHANGED << experiments, e, runs, r, i, gpu_metric_histories, history, resp,
                  all_data, experiment_data, registered_model_data, file, saves,
                  stdout, listing, fetched, cur_fetched, nseries >>

\* Lines 71 and 137: the sweep returns its table.
SweepReturn ==
  /\ pc = "return"
  /\ experiment_data' = Some(DataFrame(all_data))
  /\ pc' = "models"
  /\ UNCHANGED << exc, experiments, e, runs, r, i, gpu_metric_histories, history,
                  resp, all_data, registered_model_data, file, saves, stdout,
                  listing, fetched, cur_fetched, nseries >>

\* ---------------------------------------------------- fetch_registered_models
\* Lines 73-95 and 138: the number of rows of the table of model versions;
\* any exception is printed and gives the empty table.
FetchRegisteredModels ==
  /\ pc = "models"
  /\ \E outcome \in {"raises", "none", "some"} :
       /\ registered_model_data' = Some(IF outcome = "some" THEN 1 ELSE 0)
       /\ stdout' = IF outcome = "raises"
                    THEN Append(stdout, "Error fetching registered models")
                    ELSE stdout
  /\ pc' = "main"
  /\ UNCHANGED << exc, experiments, e, runs, r, i, gpu_metric_histories, history,
                  resp, all_data, experiment_data, file, saves, listing, fetched,
                  cur_fetched, nseries >>

\* ------------------------------------------------------------ generate_excel
\* Variant of line 140 without the emptiness test.
ShouldGenerateAlways(df) == TRUE

\* Line 140: `not experiment_data.empty`.
ShouldGenerate(df) == ~DataFrameEmpty(df)

\* What generate_excel prints before saving (lines 119-131).
ModelsSummary(nmodels) ==
  IF nmodels > 0
  THEN <<"Total Registered Models", "Models Linked to Git Commits">>
  ELSE <<"No registered models found. Skipping Registered Models sheet.">>

\* Lines 105-134 and 140-141: the workbook is built and saved.
GenerateExcel ==
  /\ pc = "main"
  /\ ShouldGenerate(experiment_data[1])
  /\ file' = Some([metrics |-> experiment_data[1],
                   models_sheet |-> registered_model_data[1] > 0])
  /\ saves' = saves + 1
  /\ stdout' = stdout \o ModelsSummary(registered_model_data[1])
                 \o <<"Saved metrics and models to experiment_metrics_summary.xlsx">>
  /\ pc' = "done"
  /\ UNCHANGED << exc, experiments, e, runs, r, i, gpu_metric_histories, history,
                  resp, all_data, experiment_data, registered_model_data, listing,
                  fetched, cur_fetched, nseries >>

\* Line 133: wb.save raises; nothing catches it and no file is left.
SaveFails ==
  /\ pc = "main"
  /\ ShouldGenerate(experiment_data[1])
  /\ stdout' = stdout \o ModelsSummary(registered_model_data[1])
  /\ pc' = "raised"
  /\ exc' = "wb.save"
  /\ UNCHANGED << experiments, e, runs, r, i, gpu_metric_histories, history, resp,
                  all_data, experiment_data, registered_model_data, file, saves,
                  listing, fetched, cur_fetched, nseries >>

\* Lines 142-143.
ReportNoData ==
  /\ pc = "main"
  /\ ~ShouldGenerate(experiment_data[1])
  /\ stdout' = Append(stdout, "No experiment data found.")
  /\ pc' = "done"
  /\ UNCHANGED << exc, experiments, e, runs, r, i, gpu_metric_histories, history,
                  resp, all_data, experiment_data, registered_model_data, file,
                  saves, listing, fetched, cur_fetched, nseries >>

Next ==
  \/ CheckConfig
  \/ SearchExperiments
  \/ SearchExperimentsFails
  \/ SearchRuns
  \/ SearchRunsFails
  \/ FetchSlot
  \/ BuildRunData
  \/ ListArtifactsFails
  \/ SweepReturn
  \/ FetchRegisteredModels
  \/ GenerateExcel
  \/ SaveFails
  \/ ReportNoData

Spec == Init /\ [][Next]_vars

\* ==================================================================== C1
\* The rows of the table the sweep has built so far.
Rows == 1 .. Len(all_data)

\* C1: fetch_full_metric_history never raises: after a call whose client
\* request failed the result is the empty sequence and the process is still
\* sweeping (or was ended later by list_artifacts); after a call whose client
\* request succeeded the result is the client's samples as
\* (timestamp, value) pairs, in the client's order.
C1_FetchFailsToEmpty ==
  /\ exc # "get_metric_history"
  /\ ~resp.ok => /\ history = <<>>
                 /\ pc = "probe" \/ (pc = "raised" /\ exc = "list_artifacts")
  /\ resp.ok => /\ Len(history) = Len(resp.points)
                /\ \A k \in 1 .. Len(history) :
                     /\ history[k][1] = resp.points[k].timestamp
                     /\ history[k][2] = resp.points[k].value

\* A failed request in a run for which an earlier slot returned samples.
C1_Witness ==
  /\ pc = "probe"
  /\ ~resp.ok
  /\ history = <<>>
  /\ \E s \in Slots : s < i - 1 /\ Len(cur_fetched[s]) = MaxLen

\* ==================================================================== C3
\* The slots for which a run's fetched series is non-empty.
Populated(f) == {s \in Slots : f[s] # <<>>}

\* C3: a record has the history column of slot s exactly when the series
\* fetched for slot s of that record's own run is non-empty; the same holds
\* of the dict being built for the run in progress.
C3_ColumnIffSeries ==
  /\ Len(fetched) = Len(all_data)
  /\ \A k \in Rows :
       LET columns == DOMAIN all_data[k]
       IN  \A s \in Slots : (HistoryKey(s) \in columns) <=> (fetched[k][s] # <<>>)
  /\ LET keys == DOMAIN gpu_metric_histories
     IN  \A s \in Slots : (HistoryKey(s) \in keys) <=> (cur_fetched[s] # <<>>)

\* Two records: one of a run with a populated slot, followed by one of a run
\* with no populated slot, which has only the eleven fixed columns.
C3_Witness ==
  /\ Len(all_data) = 2
  /\ \E s \in Slots : fetched[1][s] # <<>>
  /\ \A s \in Slots : fetched[2][s] = <<>>
  /\ Cardinality(DOMAIN all_data[2]) = 11

\* ==================================================================== C6
\* C6: when the sweep has returned, its table has one record per run the
\* client listed, in listing order, each with the name of the experiment the
\* run was listed under, the run's id and its user tag ("Unknown" if absent).
C6_OneRecordPerRun ==
  experiment_data # None =>
    LET rows == experiment_data[1].rows
    IN  /\ Len(rows) = Len(listing)
        /\ \A k \in 1 .. Len(rows) :
             /\ rows[k][<<"Experiment Name">>] = listing[k].experiment.name
             /\ rows[k][<<"Run ID">>] = listing[k].run.run_id
             /\ rows[k][<<"User">>] =
                  (IF UserTag \in DOMAIN listing[k].run.tags
                   THEN listing[k].run.tags[UserTag] ELSE "Unknown")

\* A returned table of two runs, one with and one without a user tag.
C6_Witness ==
  /\ experiment_data # None
  /\ Len(experiment_data[1].rows) = 2
  /\ experiment_data[1].rows[1][<<"User">>] = "alice"
  /\ experiment_data[1].rows[2][<<"User">>] = "Unknown"

\* ==================================================================== C7
\* C7: a sweep that found no runs ends without an exception and without an
\* output file, having reported "No experiment data found."; an output file
\* exists only if at least one record was produced.
C7_NoRunsNoFile ==
  /\ (experiment_data # None /\ listing = <<>>) =>
       /\ file = None
       /\ saves = 0
       /\ pc # "raised"
       /\ pc = "done" => stdout[Len(stdout)] = "No experiment data found."
  /\ file # None => Len(all_data) >= 1

\* The program has ended after sweeping experiments that have no runs.
C7_Witness ==
  /\ pc = "done"
  /\ Len(experiments) = MaxExperiments
  /\ listing = <<>>
  /\ file = None

\* ==================================================================== C8
\* C8: the report is saved at most once, and only when every listed run of
\* every experiment has been recorded; a sweep ended by an exception leaves
\* no file.
C8_SaveOnlyAfterSweep ==
  /\ saves <= 1
  /\ (saves >= 1 \/ file # None) =>
       /\ e > Len(experiments)
       /\ Len(all_data) = Len(listing)
       /\ file # None
       /\ file[1].metrics.rows = all_data
  /\ exc \in {"search_experiments", "search_runs", "list_artifacts"} =>
       (file = None /\ saves = 0)

\* The report of a sweep of two runs has been saved.
C8_Witness ==
  /\ saves = 1
  /\ Len(listing) = 2
  /\ Len(file[1].metrics.rows) = 2

\* ==================================================================== C9
\* Reading a history string back: the text is cut at each "; ", and every
\* piece must be "Timestamp: <int>, Value: <int>.<digit>".
IsPrefix(p, t) == Len(p) <= Len(t) /\ SubSeq(t, 1, Len(p)) = p

\* Position of the first occurrence of sep in t at or after position from, or 0.
RECURSIVE Find(_, _, _)
Find(sep, t, from) ==
  IF from + Len(sep) - 1 > Len(t) THEN 0
  ELSE IF SubSeq(t, from, from + Len(sep) - 1) = sep THEN from
  ELSE Find(sep, t, from + 1)

RECURSIVE Split(_, _)
Split(sep, t) ==
  LET at == Find(sep, t, 1)
  IN  IF at = 0 THEN <<t>>
      ELSE <<SubSeq(t, 1, at - 1)>> \o Split(sep, SubSeq(t, at + Len(sep), Len(t)))

Digits == {"0", "1", "2", "3", "4", "5", "6", "7", "8", "9"}

DigitValue(c) == CHOOSE n \in 0 .. 9 : Digit(n) = c

IsNumeral(t) == t # <<>> /\ \A k \in 1 .. Len(t) : t[k] \in Digits

RECURSIVE NumeralValue(_)
NumeralValue(t) ==
  IF Len(t) = 1 THEN DigitValue(t[1])
  ELSE 10 * NumeralValue(SubSeq(t, 1, Len(t) - 1)) + DigitValue(t[Len(t)])

TimestampLabel == <<"T", "i", "m", "e", "s", "t", "a", "m", "p", ":", " ">>
ValueLabel == <<",", " ", "V", "a", "l", "u", "e", ":", " ">>

\* The (timestamp, value) pair an entry denotes, or <<>> if it is malformed.
ParseEntry(t) ==
  LET at  == Find(ValueLabel, t, 1)
      ts  == SubSeq(t, Len(TimestampLabel) + 1, at - 1)
      val == SubSeq(t, at + Len(ValueLabel), Len(t))
      dot == Find(<<".">>, val, 1)
      int == SubSeq(val, 1, dot - 1)
      frac == SubSeq(val, dot + 1, Len(val))
  IN  IF /\ IsPrefix(TimestampLabel, t)
         /\ at > 0
         /\ IsNumeral(ts)
         /\ dot > 0
         /\ IsNumeral(int)
         /\ Len(frac) = 1
         /\ IsNumeral(frac)
      THEN <<NumeralValue(ts), 10 * NumeralValue(int) + NumeralValue(frac)>>
      ELSE <<>>

ParseHistory(t) ==
  LET pieces == Split(<<";", " ">>, t)
  IN  [k \in 1 .. Len(pieces) |-> ParseEntry(pieces[k])]

\* C9: the history string of a populated slot reads back as the fetched
\* series, as many entries as samples and the k-th entry carrying the
\* timestamp and the value of the k-th sample: when the probe has just built
\* it, and for every record of the table the sweep returns.
C9_HistoryRoundTrip ==
  /\ (pc = "probe" /\ history # <<>>) =>
       ParseHistory(gpu_metric_histories[HistoryKey(i - 1)]) = history
  /\ pc = "models" =>
       \A k \in 1 .. Len(experiment_data[1].rows) : \A s \in Populated(fetched[k]) :
         ParseHistory(experiment_data[1].rows[k][HistoryKey(s)]) = fetched[k][s]

\* The sweep has returned a table with a record whose history string was built
\* from a series of MaxLen samples.
C9_Witness ==
  /\ pc = "models"
  /\ \E k \in Rows : \E s \in Slots :
       /\ Len(fetched[k][s]) = MaxLen
       /\ HistoryKey(s) \in DOMAIN experiment_data[1].rows[k]

\* ==================================================================== C2
\* C2: once the configuration check has passed, no failure of a per-run or
\* per-metric client call (metric history, artifact listing) ends the process.
C2_NoRunCallHalts ==
  pc = "raised" => exc \notin {"get_metric_history", "list_artifacts"}

\* ==================================================================== C4
\* Rationals <<numerator, denominator>> with a positive denominator.
RatEq(a, b) == a[1] * b[2] = b[1] * a[2]
RatAdd(a, b) == <<a[1] * b[2] + b[1] * a[2], a[2] * b[2]>>

RECURSIVE SumValues(_)
SumValues(h) == IF h = <<>> THEN 0 ELSE h[1][2] + SumValues(Tail(h))

\* The arithmetic mean of the values of a non-empty series.
SeriesMean(h) == <<SumValues(h), Len(h)>>

RECURSIVE SumOfMeans(_, _)
SumOfMeans(f, S) ==
  IF S = {} THEN <<0, 1>>
  ELSE LET s == CHOOSE x \in S : TRUE
       IN  RatAdd(SeriesMean(f[s]), SumOfMeans(f, S \ {s}))

\* The mean of the per-slot means over the populated slots.
OverallMean(f) ==
  LET total == SumOfMeans(f, Populated(f))
  IN  <<total[1], total[2] * Cardinality(Populated(f))>>

AverageKey(s) == <<"Slot_", s, "_Average_Utilization">>
OverallKey == <<"overall_average">>

\* C4: every record reports, for each populated slot, the mean of the slot's
\* sample values, and reports overall_average as the mean of those means,
\* which is absent when no slot is populated.
C4_Averages ==
  \A k \in Rows :
    /\ \A s \in Populated(fetched[k]) :
         /\ AverageKey(s) \in DOMAIN all_data[k]
         /\ RatEq(all_data[k][AverageKey(s)], SeriesMean(fetched[k][s]))
    /\ IF Populated(fetched[k]) = {}
       THEN OverallKey \in DOMAIN all_data[k] => all_data[k][OverallKey] = None
       ELSE /\ OverallKey \in DOMAIN all_data[k]
            /\ all_data[k][OverallKey] # None
            /\ RatEq(all_data[k][OverallKey][1], OverallMean(fetched[k]))

\* ==================================================================== C5
\* C5: a record's duration is (end - start) / 1000 when the run's end
\* timestamp is present, 0 included, and is absent when it is absent.
C5_Duration ==
  \A k \in Rows :
    LET run == listing[k].run
        d   == all_data[k][<<"Duration (s)">>]
    IN  IF run.end_time = None
        THEN d = None
        ELSE d = Some(<<run.end_time[1] - run.start_time[1], 1000>>)

\* ==================================================================== C10
EnvironmentKey == <<"environment_kind">>

\* First match in the order Conda, Requirements, Docker; else "No".
EnvironmentKind(tags) ==
  IF CondaTag \in DOMAIN tags THEN "Conda"
  ELSE IF RequirementsTag \in DOMAIN tags THEN "Requirements"
  ELSE IF DockerTag \in DOMAIN tags THEN "Docker"
  ELSE "No"

\* C10: every record reports the environment kind of its run's tags, the
\* first match in the order Conda, Requirements, Docker, else "No".
C10_EnvironmentKind ==
  \A k \in Rows :
    /\ EnvironmentKey \in DOMAIN all_data[k]
    /\ all_data[k][EnvironmentKey] = EnvironmentKind(listing[k].run.tags)

====
